---------------------------- MODULE Spec2Model ----------------------------
(***************************************************************************)
(* A model of the bitcoind JSON-RPC client of src/src/client.rs and the    *)
(* error taxonomy of src/src/error.rs.                                     *)
(*                                                                         *)
(* The library has no long-lived state of its own: every operation is a    *)
(* synchronous function of its arguments, of the cookie file on disk and   *)
(* of the reply the transport hands back.  The state machine below is a    *)
(* caller of the library: `fs` is the cookie file the caller's path names, *)
(* `client` is the client handle the caller holds, and `last` records the  *)
(* most recent invocation (operation, arguments, the steps the handler     *)
(* went through in order, and the value it returned).                      *)
(*                                                                         *)
(* Text is modelled as sequences of one-character strings so that          *)
(* splitting, trimming and hex decoding are computed, not assumed.         *)
(***************************************************************************)
EXTENDS Integers, Sequences, FiniteSets, TLC

VARIABLES fs, client, last

vars == <<fs, client, last>>

(***************************************************************************)
(* Bounds of the model.                                                    *)
(***************************************************************************)
MaxCookieLen == 3
MaxStrLen == 2

(***************************************************************************)
(* Generic helpers on sequences.                                           *)
(***************************************************************************)
SeqsUpTo(S, n) == UNION {[1..k -> S] : k \in 0..n}

Min(S) == CHOOSE x \in S : \A y \in S : x <= y

Max(S) == CHOOSE x \in S : \A y \in S : x >= y

(***************************************************************************)
(* Results.  Ok(v) and Err(kind, detail) model Result<T, Error>; `kind` is *)
(* the variant of error::Error and `detail` what the variant carries (the  *)
(* description of InvalidResponse, the inner variant of jsonrpc::Error).   *)
(***************************************************************************)
ErrorKinds ==
    {"MissingAuthentication", "InvalidCookieFile", "InvalidResponse",
     "JsonRpc", "HexToBytes", "HexToArray", "Json", "Io"}

Ok(v) == [ok |-> TRUE, val |-> v]

Err(kind, detail) == [ok |-> FALSE, kind |-> kind, detail |-> detail]

IsErr(r, kind) == (~r.ok) /\ r.kind = kind

\* Option<String>
None == [some |-> FALSE]

Some(s) == [some |-> TRUE, v |-> s]

\* What a handler hands back: its return value and the steps it performed.
Outcome(res, steps) == [res |-> res, steps |-> steps]

(***************************************************************************)
(* The cookie file.                                                        *)
(***************************************************************************)
COLON == ":"
LF == "\n"
CR == "\r"
SP == " "

CookieChars == {"u", COLON, LF, CR, SP}

Whitespace == {LF, CR, SP}

CookieContents == SeqsUpTo(CookieChars, MaxCookieLen)

\* The path does not exist (File::open fails).
FileMissing == [state |-> "missing"]

\* The path opens but reading it fails (a directory, invalid UTF-8).
FileUnreadable == [state |-> "unreadable"]

FileWith(content) == [state |-> "file", content |-> content]

\* BufRead::lines().next() on a non-empty content: the text up to the first
\* line feed, without it, and without a carriage return right before it.
FirstLine(content) ==
    LET nl == {i \in 1..Len(content) : content[i] = LF}
    IN  IF nl = {} THEN content
        ELSE LET raw == SubSeq(content, 1, Min(nl) - 1)
             IN  IF Len(raw) > 0 /\ raw[Len(raw)] = CR
                 THEN SubSeq(raw, 1, Len(raw) - 1)
                 ELSE raw

\* A variant of FindColon that searches from the end (str::rfind).
FindColon_last(line) ==
    LET cs == {i \in 1..Len(line) : line[i] = COLON}
    IN  IF cs = {} THEN 0 ELSE Max(cs)

\* str::find(':'): the index of the first colon, 0 when there is none.
FindColon(line) ==
    LET cs == {i \in 1..Len(line) : line[i] = COLON}
    IN  IF cs = {} THEN 0 ELSE Min(cs)

\* str::trim(): leading and trailing whitespace removed.
Trim(s) ==
    LET keep == {i \in 1..Len(s) : s[i] \notin Whitespace}
    IN  IF keep = {} THEN <<>> ELSE SubSeq(s, Min(keep), Max(keep))

(***************************************************************************)
(* Auth and Auth::get_user_pass.                                           *)
(***************************************************************************)
AuthNone == [variant |-> "None"]

AuthUserPass(u, p) == [variant |-> "UserPass", user |-> u, pass |-> p]

AuthCookieFile == [variant |-> "CookieFile"]

Auths ==
    {AuthNone, AuthCookieFile}
        \cup {AuthUserPass(u, p) : u \in {<<"u">>}, p \in {<<"u">>, <<COLON, "u">>}}

SplitAtColon(line, colon) ==
    Ok(<<Some(SubSeq(line, 1, colon - 1)), Some(SubSeq(line, colon + 1, Len(line)))>>)

\* A variant of get_user_pass that reports every cookie failure, the
\* filesystem's included, as InvalidCookieFile.
get_user_pass_one_kind(auth, f) ==
    CASE auth.variant = "None" -> Outcome(Ok(<<None, None>>), <<>>)
      [] auth.variant = "UserPass" ->
            Outcome(Ok(<<Some(auth.user), Some(auth.pass)>>), <<>>)
      [] auth.variant = "CookieFile" ->
            IF f.state = "missing"
            THEN Outcome(Err("InvalidCookieFile", ""), <<"open">>)
            ELSE IF f.state = "unreadable" \/ Len(f.content) = 0
            THEN Outcome(Err("InvalidCookieFile", ""), <<"open", "read_line">>)
            ELSE LET line == FirstLine(f.content)
                     colon == FindColon(line)
                 IN  IF colon = 0
                     THEN Outcome(Err("InvalidCookieFile", ""), <<"open", "read_line">>)
                     ELSE Outcome(SplitAtColon(line, colon), <<"open", "read_line">>)

get_user_pass(auth, f) ==
    CASE auth.variant = "None" -> Outcome(Ok(<<None, None>>), <<>>)
      [] auth.variant = "UserPass" ->
            Outcome(Ok(<<Some(auth.user), Some(auth.pass)>>), <<>>)
      [] auth.variant = "CookieFile" ->
            IF f.state = "missing" THEN Outcome(Err("Io", "open"), <<"open">>)
            ELSE IF f.state = "unreadable"
            THEN Outcome(Err("Io", "read"), <<"open", "read_line">>)
            ELSE IF Len(f.content) = 0
            THEN Outcome(Err("InvalidCookieFile", ""), <<"open", "read_line">>)
            ELSE LET line == FirstLine(f.content)
                     colon == FindColon(line)
                 IN  IF colon = 0
                     THEN Outcome(Err("InvalidCookieFile", ""), <<"open", "read_line">>)
                     ELSE Outcome(SplitAtColon(line, colon), <<"open", "read_line">>)

(***************************************************************************)
(* Client::with_auth.                                                      *)
(***************************************************************************)
TimeoutSecs == 60

\* Builder::url is external: a URL either parses or it does not.
Urls == {[text |-> "http://localhost:18443", parsable |-> TRUE],
         [text |-> "localhost 18443", parsable |-> FALSE]}

\* The transport the builder produces.  `credentials` is the text the
\* transport sends (base64-encoded) in its Basic authorization header:
\* basic_auth(user, Some(pass)) sets user:pass, cookie_auth(cookie) sets
\* the cookie as it is.
Transport(url, credentials) ==
    [url |-> url.text, timeout |-> TimeoutSecs, credentials |-> credentials]

basic_auth(user, pass) == user \o <<COLON>> \o pass

cookie_auth(cookie) == cookie

\* A variant of with_auth that sets the URL on the builder before it looks
\* at the credentials.
with_auth_url_first(url, auth, f) ==
    IF ~url.parsable
    THEN Outcome(Err("InvalidResponse", "Invalid URL"), <<"parse_url">>)
    ELSE IF auth.variant = "None"
    THEN Outcome(Err("MissingAuthentication", ""), <<"parse_url">>)
    ELSE IF auth.variant = "UserPass"
    THEN Outcome(Ok(Transport(url, basic_auth(auth.user, auth.pass))),
                 <<"parse_url", "build_transport">>)
    ELSE IF f.state # "file"
    THEN Outcome(Err("InvalidCookieFile", ""), <<"parse_url", "read_cookie">>)
    ELSE Outcome(Ok(Transport(url, cookie_auth(Trim(f.content)))),
                 <<"parse_url", "read_cookie", "build_transport">>)

with_auth(url, auth, f) ==
    IF auth.variant = "None"
    THEN Outcome(Err("MissingAuthentication", ""), <<>>)
    ELSE IF ~url.parsable
    THEN Outcome(Err("InvalidResponse", "Invalid URL"), <<"parse_url">>)
    ELSE IF auth.variant = "UserPass"
    THEN Outcome(Ok(Transport(url, basic_auth(auth.user, auth.pass))),
                 <<"parse_url", "build_transport">>)
    ELSE IF f.state # "file"
    THEN Outcome(Err("InvalidCookieFile", ""), <<"parse_url", "read_cookie">>)
    ELSE Outcome(Ok(Transport(url, cookie_auth(Trim(f.content)))),
                 <<"parse_url", "read_cookie", "build_transport">>)

(***************************************************************************)
(* Text the server sends: hex strings and hashes.                          *)
(***************************************************************************)
HashHexLen == 64

StrChars == {"a", "g"}

HexDigits ==
    <<"0", "1", "2", "3", "4", "5", "6", "7", "8", "9", "a", "b", "c", "d", "e", "f">>

IsHexDigit(c) == \E i \in 1..Len(HexDigits) : HexDigits[i] = c

HexVal(c) == (CHOOSE i \in 1..Len(HexDigits) : HexDigits[i] = c) - 1

ZeroHash == [i \in 1..HashHexLen |-> "0"]

OtherHash == [i \in 1..HashHexLen |-> IF i = 1 THEN "a" ELSE "0"]

\* As long as a hash, but its last character is no hex digit.
NotAHash == [i \in 1..HashHexLen |-> IF i = HashHexLen THEN "g" ELSE "0"]

Strings == SeqsUpTo(StrChars, MaxStrLen) \cup {ZeroHash, OtherHash, NotAHash}

Reverse(s) == [i \in 1..Len(s) |-> s[Len(s) + 1 - i]]

DecodeHexPairs(s) ==
    [i \in 1..(Len(s) \div 2) |-> 16 * HexVal(s[2 * i - 1]) + HexVal(s[2 * i])]

\* Vec::<u8>::from_hex: an even number of hex digits, two per byte.
from_hex(s) ==
    IF Len(s) % 2 # 0 \/ \E i \in 1..Len(s) : ~IsHexDigit(s[i])
    THEN Err("HexToBytes", "")
    ELSE Ok(DecodeHexPairs(s))

\* BlockHash::from_str / str::parse::<BlockHash> / Txid: exactly 64 hex
\* digits, displayed in reverse byte order.
hash_from_str(s) ==
    IF Len(s) # HashHexLen \/ \E i \in 1..Len(s) : ~IsHexDigit(s[i])
    THEN Err("HexToArray", "")
    ELSE Ok(Reverse(DecodeHexPairs(s)))

(***************************************************************************)
(* JSON values (serde_json::Value), tagged by their JSON type.             *)
(***************************************************************************)
JNull == [t |-> "null"]

JBool(b) == [t |-> "bool", b |-> b]

JNum(n) == [t |-> "number", n |-> n]

JStr(s) == [t |-> "string", s |-> s]

JArr(a) == [t |-> "array", a |-> a]

JObj(o) == [t |-> "object", o |-> o]

Scalars ==
    {JNull} \cup {JBool(b) : b \in BOOLEAN} \cup {JNum(n) : n \in {-1, 0, 7}}
        \cup {JStr(s) : s \in Strings}

Arrays ==
    {JArr(<<>>)} \cup {JArr(<<x>>) : x \in {JStr(ZeroHash), JStr(<<"g">>), JNum(0)}}

\* Objects with any of the keys "hash" and "height".
Objects ==
    {JObj([k \in D |-> JNum(0)]) : D \in SUBSET {"height"}}
        \cup {JObj([k \in {"hash"} |-> x]) : x \in Scalars}
        \cup {JObj([k \in {"hash", "height"} |-> IF k = "hash" THEN JStr(ZeroHash)
                                                                ELSE JNum(0)])}

JsonValues == Scalars \cup Arrays \cup Objects

(***************************************************************************)
(* What the transport hands back to send_request: a transport failure, or  *)
(* a jsonrpc::Response with an optional error object and an optional       *)
(* result.                                                                 *)
(***************************************************************************)
Absent == [t |-> "absent"]

NoRpcError == [present |-> FALSE]

RpcError == [present |-> TRUE, code |-> -8]

TransportFailure == [kind |-> "transport_error"]

Response(error, result) == [kind |-> "response", error |-> error, result |-> result]

Replies ==
    {TransportFailure}
        \cup {Response(NoRpcError, r) : r \in {Absent} \cup JsonValues}
        \cup {Response(RpcError, r) : r \in {Absent, JNull, JStr(ZeroHash)}}

(***************************************************************************)
(* serde: deserializing the result into the type T a method asks for.      *)
(* `ext` is the verdict of the external decoder on what the model does not *)
(* spell out (the fields of the corepc_types structs; further down, the    *)
(* consensus encoding of a block, header or transaction).                  *)
(***************************************************************************)
Types ==
    {"String", "Value", "GetBlockCount", "GetRawMempool", "GetBlockVerboseOne",
     "GetBlockFilter"}

AllTxids(a) == \A i \in 1..Len(a) : a[i].t = "string" /\ hash_from_str(a[i].s).ok

Deserialize(T, v, ext) ==
    CASE T = "Value" -> Ok(v)
      [] T = "String" -> IF v.t = "string" THEN Ok(v.s) ELSE Err("Json", "")
      [] T = "GetBlockCount" ->
            IF v.t = "number" /\ v.n >= 0 THEN Ok(v.n) ELSE Err("Json", "")
      [] T = "GetRawMempool" ->
            IF v.t = "array" /\ AllTxids(v.a)
            THEN Ok([i \in 1..Len(v.a) |-> hash_from_str(v.a[i].s).val])
            ELSE Err("Json", "")
      [] T \in {"GetBlockVerboseOne", "GetBlockFilter"} ->
            IF v.t = "object" /\ ext THEN Ok([struct |-> T, fields |-> v.o])
            ELSE Err("Json", "")

\* Response::result: the error object first, then the result (null when
\* the response carries none).
ResultOf(reply) == IF reply.result.t = "absent" THEN JNull ELSE reply.result

(***************************************************************************)
(* Client::call.  Every failure of send_request and of Response::result is *)
(* a jsonrpc::Error, which `?` converts with From<jsonrpc::Error>.         *)
(* Serializing the arguments (to_raw_value on a slice of serde_json        *)
(* values) cannot fail and is not a step of its own.                       *)
(***************************************************************************)
FromJsonRpcError(inner) == Err("JsonRpc", inner)

\* A variant of call that deserializes the result before it looks at the
\* error object.
call_result_first(T, reply, ext) ==
    IF reply.kind = "transport_error"
    THEN Outcome(FromJsonRpcError("Transport"), <<"build_request", "send_request">>)
    ELSE LET d == Deserialize(T, ResultOf(reply), ext)
             steps == <<"build_request", "send_request", "deserialize_result">>
         IN  IF ~d.ok THEN Outcome(FromJsonRpcError("Json"), steps)
             ELSE IF reply.error.present THEN Outcome(FromJsonRpcError("Rpc"), steps)
             ELSE Outcome(d, steps)

\* A variant of call that deserializes the result with serde_json itself,
\* so that `?` converts the failure with From<serde_json::Error>.
call_json_kind(T, reply, ext) ==
    IF reply.kind = "transport_error"
    THEN Outcome(FromJsonRpcError("Transport"), <<"build_request", "send_request">>)
    ELSE IF reply.error.present
    THEN Outcome(FromJsonRpcError("Rpc"), <<"build_request", "send_request">>)
    ELSE LET d == Deserialize(T, ResultOf(reply), ext)
             steps == <<"build_request", "send_request", "deserialize_result">>
         IN  IF d.ok THEN Outcome(d, steps) ELSE Outcome(Err("Json", ""), steps)

\* A variant of call that sends the request a second time when the
\* transport fails.
call_retry_once(T, reply, ext) ==
    IF reply.kind = "transport_error"
    THEN Outcome(FromJsonRpcError("Transport"),
                 <<"build_request", "send_request", "send_request">>)
    ELSE IF reply.error.present
    THEN Outcome(FromJsonRpcError("Rpc"), <<"build_request", "send_request">>)
    ELSE LET d == Deserialize(T, ResultOf(reply), ext)
             steps == <<"build_request", "send_request", "deserialize_result">>
         IN  IF d.ok THEN Outcome(d, steps) ELSE Outcome(FromJsonRpcError("Json"), steps)

call(T, reply, ext) ==
    IF reply.kind = "transport_error"
    THEN Outcome(FromJsonRpcError("Transport"), <<"build_request", "send_request">>)
    ELSE IF reply.error.present
    THEN Outcome(FromJsonRpcError("Rpc"), <<"build_request", "send_request">>)
    ELSE LET d == Deserialize(T, ResultOf(reply), ext)
             steps == <<"build_request", "send_request", "deserialize_result">>
         IN  IF d.ok THEN Outcome(d, steps) ELSE Outcome(FromJsonRpcError("Json"), steps)

(***************************************************************************)
(* The typed methods: call, then the method's own decoding.                *)
(***************************************************************************)
\* call::<String>, Vec::from_hex, consensus deserialize.
HexThenConsensus(reply, ext, what, description) ==
    LET c == call("String", reply, ext)
    IN  IF ~c.res.ok THEN c
        ELSE LET bytes == from_hex(c.res.val)
             IN  IF ~bytes.ok
                 THEN Outcome(Err("HexToBytes", ""), c.steps \o <<"from_hex">>)
                 ELSE IF ~ext
                 THEN Outcome(Err("InvalidResponse", description),
                              c.steps \o <<"from_hex", "consensus_decode">>)
                 ELSE Outcome(Ok([decoded |-> what, bytes |-> bytes.val]),
                              c.steps \o <<"from_hex", "consensus_decode">>)

get_block(reply, ext) ==
    HexThenConsensus(reply, ext, "Block", "failed to deserialize block")

get_block_verbose(reply, ext) == call("GetBlockVerboseOne", reply, ext)

get_best_block_hash(reply, ext) ==
    LET c == call("String", reply, ext)
    IN  IF ~c.res.ok THEN c
        ELSE Outcome(hash_from_str(c.res.val), c.steps \o <<"parse_hash">>)

get_block_count(reply, ext) == call("GetBlockCount", reply, ext)

\* A variant of get_block_hash that accepts the bare string only.
get_block_hash_string_only(reply, ext) ==
    LET c == call("Value", reply, ext)
    IN  IF ~c.res.ok THEN c
        ELSE LET raw == c.res.val
             IN  IF raw.t = "string"
                 THEN Outcome(hash_from_str(raw.s), c.steps \o <<"parse_hash">>)
                 ELSE Outcome(Err("InvalidResponse",
                                  "getblockhash: unexpected response type"), c.steps)

get_block_hash(reply, ext) ==
    LET c == call("Value", reply, ext)
    IN  IF ~c.res.ok THEN c
        ELSE LET raw == c.res.val
             IN  IF raw.t = "string"
                 THEN Outcome(hash_from_str(raw.s), c.steps \o <<"parse_hash">>)
                 ELSE IF raw.t = "object"
                 THEN IF "hash" \in DOMAIN raw.o /\ raw.o["hash"].t = "string"
                      THEN Outcome(hash_from_str(raw.o["hash"].s),
                                   c.steps \o <<"parse_hash">>)
                      ELSE Outcome(Err("InvalidResponse",
                                       "getblockhash: missing 'hash' field"), c.steps)
                 ELSE Outcome(Err("InvalidResponse",
                                  "getblockhash: unexpected response type"), c.steps)

get_block_filter(reply, ext) == call("GetBlockFilter", reply, ext)

get_block_header(reply, ext) ==
    HexThenConsensus(reply, ext, "Header", "failed to deserialize block header")

get_raw_mempool(reply, ext) == call("GetRawMempool", reply, ext)

\* A variant of get_raw_transaction that reports a hex failure as an
\* invalid response.
get_raw_transaction_hex_as_invalid(reply, ext) ==
    LET c == call("String", reply, ext)
    IN  IF ~c.res.ok THEN c
        ELSE LET bytes == from_hex(c.res.val)
             IN  IF ~bytes.ok
                 THEN Outcome(Err("InvalidResponse", "invalid hex"),
                              c.steps \o <<"from_hex">>)
                 ELSE IF ~ext
                 THEN Outcome(Err("InvalidResponse", "transaction deserialization failed"),
                              c.steps \o <<"from_hex", "consensus_decode">>)
                 ELSE Outcome(Ok([decoded |-> "Transaction", bytes |-> bytes.val]),
                              c.steps \o <<"from_hex", "consensus_decode">>)

get_raw_transaction(reply, ext) ==
    HexThenConsensus(reply, ext, "Transaction", "transaction deserialization failed")

\* The request each method builds: the RPC method name and its positional
\* arguments.
Request(method, params) == [method |-> method, params |-> params]

(***************************************************************************)
(* The caller: state and actions.                                          *)
(***************************************************************************)
NoClient == [built |-> FALSE]

NoCall == [op |-> "none"]

Init ==
    /\ fs = FileMissing
    /\ client = NoClient
    /\ last = NoCall

\* The environment (bitcoind, the operator) writes, removes or breaks the
\* cookie file.
WriteCookieFile(content) ==
    /\ fs' = FileWith(content)
    /\ last' = NoCall
    /\ UNCHANGED client

RemoveCookieFile ==
    /\ fs.state # "missing"
    /\ fs' = FileMissing
    /\ last' = NoCall
    /\ UNCHANGED client

BreakCookieFile ==
    /\ fs.state # "unreadable"
    /\ fs' = FileUnreadable
    /\ last' = NoCall
    /\ UNCHANGED client

GetUserPass(auth) ==
    /\ last' = [op |-> "get_user_pass", auth |-> auth,
                out |-> get_user_pass(auth, fs)]
    /\ UNCHANGED <<fs, client>>

WithAuth(url, auth) ==
    /\ last' = [op |-> "with_auth", url |-> url, auth |-> auth,
                out |-> with_auth(url, auth, fs)]
    /\ UNCHANGED <<fs, client>>

\* Client::with_transport: the caller supplies the transport (here one whose
\* replies the environment chooses).
WithTransport ==
    /\ ~client.built
    /\ client' = [built |-> TRUE]
    /\ last' = [op |-> "with_transport"]
    /\ UNCHANGED fs

Call(T, reply, ext) ==
    /\ client.built
    /\ last' = [op |-> "call", type |-> T,
                request |-> Request("getblockchaininfo", <<>>),
                reply |-> reply, ext |-> ext,
                out |-> call(T, reply, ext)]
    /\ UNCHANGED <<fs, client>>

GetBlock(block_hash, reply, ext) ==
    /\ client.built
    /\ last' = [op |-> "get_block",
                request |-> Request("getblock", <<JStr(block_hash), JNum(0)>>),
                reply |-> reply, ext |-> ext,
                out |-> get_block(reply, ext)]
    /\ UNCHANGED <<fs, client>>

GetBlockVerbose(block_hash, reply, ext) ==
    /\ client.built
    /\ last' = [op |-> "get_block_verbose",
                request |-> Request("getblock", <<JStr(block_hash), JNum(1)>>),
                reply |-> reply, ext |-> ext,
                out |-> get_block_verbose(reply, ext)]
    /\ UNCHANGED <<fs, client>>

GetBestBlockHash(reply, ext) ==
    /\ client.built
    /\ last' = [op |-> "get_best_block_hash",
                request |-> Request("getbestblockhash", <<>>),
                reply |-> reply, ext |-> ext,
                out |-> get_best_block_hash(reply, ext)]
    /\ UNCHANGED <<fs, client>>

GetBlockCount(reply, ext) ==
    /\ client.built
    /\ last' = [op |-> "get_block_count",
                request |-> Request("getblockcount", <<>>),
                reply |-> reply, ext |-> ext,
                out |-> get_block_count(reply, ext)]
    /\ UNCHANGED <<fs, client>>

GetBlockHash(height, reply, ext) ==
    /\ client.built
    /\ last' = [op |-> "get_block_hash",
                request |-> Request("getblockhash", <<JNum(height)>>),
                reply |-> reply, ext |-> ext,
                out |-> get_block_hash(reply, ext)]
    /\ UNCHANGED <<fs, client>>

GetBlockFilter(block_hash, reply, ext) ==
    /\ client.built
    /\ last' = [op |-> "get_block_filter",
                request |-> Request("getblockfilter", <<JStr(block_hash)>>),
                reply |-> reply, ext |-> ext,
                out |-> get_block_filter(reply, ext)]
    /\ UNCHANGED <<fs, client>>

GetBlockHeader(block_hash, reply, ext) ==
    /\ client.built
    /\ last' = [op |-> "get_block_header",
                request |-> Request("getblockheader", <<JStr(block_hash), JBool(FALSE)>>),
                reply |-> reply, ext |-> ext,
                out |-> get_block_header(reply, ext)]
    /\ UNCHANGED <<fs, client>>

GetRawMempool(reply, ext) ==
    /\ client.built
    /\ last' = [op |-> "get_raw_mempool",
                request |-> Request("getrawmempool", <<>>),
                reply |-> reply, ext |-> ext,
                out |-> get_raw_mempool(reply, ext)]
    /\ UNCHANGED <<fs, client>>

GetRawTransaction(txid, reply, ext) ==
    /\ client.built
    /\ last' = [op |-> "get_raw_transaction",
                request |-> Request("getrawtransaction", <<JStr(txid)>>),
                reply |-> reply, ext |-> ext,
                out |-> get_raw_transaction(reply, ext)]
    /\ UNCHANGED <<fs, client>>

\* Arguments the caller passes.
Hashes == {ZeroHash}

Heights == {0, 1}

NextRpc ==
    \/ WithTransport
    \/ \E T \in Types, reply \in Replies, ext \in BOOLEAN : Call(T, reply, ext)
    \/ \E h \in Hashes, reply \in Replies, ext \in BOOLEAN : GetBlock(h, reply, ext)
    \/ \E h \in Hashes, reply \in Replies, ext \in BOOLEAN : GetBlockVerbose(h, reply, ext)
    \/ \E reply \in Replies, ext \in BOOLEAN : GetBestBlockHash(reply, ext)
    \/ \E reply \in Replies, ext \in BOOLEAN : GetBlockCount(reply, ext)
    \/ \E n \in Heights, reply \in Replies, ext \in BOOLEAN : GetBlockHash(n, reply, ext)
    \/ \E h \in Hashes, reply \in Replies, ext \in BOOLEAN : GetBlockFilter(h, reply, ext)
    \/ \E h \in Hashes, reply \in Replies, ext \in BOOLEAN : GetBlockHeader(h, reply, ext)
    \/ \E reply \in Replies, ext \in BOOLEAN : GetRawMempool(reply, ext)
    \/ \E h \in Hashes, reply \in Replies, ext \in BOOLEAN : GetRawTransaction(h, reply, ext)

SpecRpc == Init /\ [][NextRpc]_vars

NextAuth ==
    \/ \E content \in CookieContents : WriteCookieFile(content)
    \/ RemoveCookieFile
    \/ BreakCookieFile
    \/ \E auth \in Auths : GetUserPass(auth)
    \/ \E url \in Urls, auth \in Auths : WithAuth(url, auth)

SpecAuth == Init /\ [][NextAuth]_vars

Next == NextAuth \/ NextRpc

Spec == Init /\ [][Next]_vars

(***************************************************************************)
(* Properties of construction and of credential resolution (SpecAuth).     *)
(***************************************************************************)
CalledWithAuth(variant) == last.op = "with_auth" /\ last.auth.variant = variant

CalledGetUserPass(variant) ==
    last.op = "get_user_pass" /\ last.auth.variant = variant

HasNoColon(s) == \A i \in 1..Len(s) : s[i] # COLON

\* The first line of the content holds a colon: a colon with no line feed
\* before it.
FirstLineHasColon(content) ==
    \E i \in 1..Len(content) :
        content[i] = COLON /\ \A j \in 1..(i - 1) : content[j] # LF

IsPrefix(p, s) == Len(p) <= Len(s) /\ SubSeq(s, 1, Len(p)) = p

\* `line` is the first line of `content`: it holds no line feed and the
\* content is the line, alone or followed by LF or by CR LF.
IsFirstLineOf(line, content) ==
    /\ \A i \in 1..Len(line) : line[i] # LF
    /\ \/ content = line
       \/ IsPrefix(line \o <<LF>>, content)
       \/ IsPrefix(line \o <<CR, LF>>, content)

\* C1: with_auth(url, Auth::None) returns Err(MissingAuthentication) for every
\* url, parsable or not, and has then performed no step at all: the URL is
\* not parsed, no cookie file is read and no transport is built.
C1_NoneRejectedEagerly ==
    CalledWithAuth("None") =>
        /\ IsErr(last.out.res, "MissingAuthentication")
        /\ last.out.steps = <<>>

C1_Witness ==
    /\ CalledWithAuth("None")
    /\ ~last.url.parsable
    /\ fs.state = "file"
    /\ IsErr(last.out.res, "MissingAuthentication")

\* C2 (as claimed): with_auth(url, Auth::CookieFile(path)) with a parsable url
\* fails with InvalidCookieFile when the cookie file is missing, when it is
\* empty and when its content contains no colon.
C2_InvalidCookieRejected ==
    (/\ CalledWithAuth("CookieFile")
     /\ last.url.parsable
     /\ \/ fs.state = "missing"
        \/ fs.state = "file" /\ HasNoColon(fs.content))
        => IsErr(last.out.res, "InvalidCookieFile")

\* C3 (as claimed): for every cookie file, with_auth succeeds exactly when
\* get_user_pass succeeds on the same file, and the credentials it configures
\* on the transport are the resolver's username, a colon, the resolver's
\* password.
C3_TransportUsesResolvedCredentials ==
    (CalledWithAuth("CookieFile") /\ last.url.parsable) =>
        LET resolved == get_user_pass(last.auth, fs).res
        IN  /\ last.out.res.ok <=> resolved.ok
            /\ (last.out.res.ok /\ resolved.ok) =>
                  last.out.res.val.credentials =
                      resolved.val[1].v \o <<COLON>> \o resolved.val[2].v

\* C4: get_user_pass returns Ok((None, None)) for None, Ok((Some(u), Some(p)))
\* with u and p unchanged for UserPass(u, p), and for a CookieFile whose first
\* line holds a colon Ok((Some(user), Some(pass))) where user holds no colon
\* and user, a colon, pass is the first line of the file.
C4_GetUserPassSplitsAtFirstColon ==
    /\ CalledGetUserPass("None") => last.out.res = Ok(<<None, None>>)
    /\ CalledGetUserPass("UserPass") =>
          last.out.res = Ok(<<Some(last.auth.user), Some(last.auth.pass)>>)
    /\ (/\ CalledGetUserPass("CookieFile")
        /\ fs.state = "file"
        /\ FirstLineHasColon(fs.content)) =>
          /\ last.out.res.ok
          /\ last.out.res.val[1].some
          /\ last.out.res.val[2].some
          /\ HasNoColon(last.out.res.val[1].v)
          /\ IsFirstLineOf(last.out.res.val[1].v \o <<COLON>> \o last.out.res.val[2].v,
                           fs.content)

\* A cookie whose password itself holds a colon has been resolved.
C4_Witness ==
    /\ CalledGetUserPass("CookieFile")
    /\ fs.state = "file"
    /\ last.out.res.ok
    /\ last.out.res.val[1].v = <<"u">>
    /\ ~HasNoColon(last.out.res.val[2].v)

\* C5: get_user_pass on CookieFile(path) never returns Ok when the file cannot
\* be opened or read, is empty, or has a first line without a colon: an open
\* or read failure yields Io, an empty file or a colon-less first line yields
\* InvalidCookieFile.
C5_CookieFailureKinds ==
    CalledGetUserPass("CookieFile") =>
        /\ fs.state \in {"missing", "unreadable"} => IsErr(last.out.res, "Io")
        /\ (fs.state = "file" /\ ~FirstLineHasColon(fs.content)) =>
              IsErr(last.out.res, "InvalidCookieFile")

\* The resolver has refused a file whose only colon is on its second line.
C5_Witness ==
    /\ CalledGetUserPass("CookieFile")
    /\ fs.state = "file"
    /\ ~HasNoColon(fs.content)
    /\ ~FirstLineHasColon(fs.content)
    /\ IsErr(last.out.res, "InvalidCookieFile")

(***************************************************************************)
(* Properties of call and of the typed methods (SpecRpc).                  *)
(***************************************************************************)
HexMethods == {"get_block", "get_block_header", "get_raw_transaction"}

TypedMethods ==
    HexMethods \cup {"get_block_verbose", "get_best_block_hash", "get_block_count",
                     "get_block_hash", "get_block_filter", "get_raw_mempool"}

Invoked(ops) == last.op \in ops

\* The transport answered with a response that carries no error object.
GotResult == last.reply.kind = "response" /\ ~last.reply.error.present

\* The transport answered with a response that carries an error object.
GotErrorObject == last.reply.kind = "response" /\ last.reply.error.present

\* The JSON type of the result; a response without a result reads as null.
ResultType == IF last.reply.result.t = "absent" THEN "null" ELSE last.reply.result.t

\* The result is an object whose "hash" field is a string.
HasHashString(v) == v.t = "object" /\ "hash" \in DOMAIN v.o /\ v.o["hash"].t = "string"

\* An even number of characters, each a hex digit.
ValidHex(str) ==
    /\ Len(str) % 2 = 0
    /\ \A i \in 1..Len(str) :
          str[i] \in {"0", "1", "2", "3", "4", "5", "6", "7", "8", "9",
                      "a", "b", "c", "d", "e", "f"}

DecodingSteps == {"deserialize_result", "from_hex", "consensus_decode", "parse_hash"}

Performed(step) == \E i \in 1..Len(last.out.steps) : last.out.steps[i] = step

\* C6: get_block_hash yields for an object whose "hash" field is the string s
\* what it yields for the bare string s, and for every other result shape
\* (number, bool, null, array, object without "hash", object whose "hash" is
\* no string) it fails with InvalidResponse.
C6_GetBlockHashBothShapes ==
    (Invoked({"get_block_hash"}) /\ GotResult) =>
        /\ HasHashString(last.reply.result) =>
              last.out.res =
                  get_block_hash(Response(NoRpcError, last.reply.result.o["hash"]),
                                 last.ext).res
        /\ (ResultType # "string" /\ ~HasHashString(last.reply.result)) =>
              IsErr(last.out.res, "InvalidResponse")

\* The object shape has produced a hash.
C6_Witness ==
    /\ Invoked({"get_block_hash"})
    /\ GotResult
    /\ HasHashString(last.reply.result)
    /\ last.reply.result.o["hash"].s = ZeroHash
    /\ last.out.res.ok

\* C7: for get_block, get_block_header and get_raw_transaction a string result
\* that is not valid hex fails with HexToBytes, never with InvalidResponse;
\* the consensus decoder runs only after the hex decoder, and InvalidResponse
\* is returned only for a valid hex string that fails consensus decoding.
C7_InvalidHexIsHexToBytes ==
    (Invoked(HexMethods) /\ GotResult) =>
        /\ (ResultType = "string" /\ ~ValidHex(last.reply.result.s)) =>
              IsErr(last.out.res, "HexToBytes")
        /\ Performed("consensus_decode") =>
              /\ Performed("from_hex")
              /\ last.out.steps[Len(last.out.steps)] = "consensus_decode"
        /\ IsErr(last.out.res, "InvalidResponse") =>
              /\ ResultType = "string"
              /\ ValidHex(last.reply.result.s)
              /\ ~last.ext
              /\ Performed("consensus_decode")

\* A string of even length with a character that is no hex digit was refused.
C7_Witness ==
    /\ Invoked({"get_raw_transaction"})
    /\ GotResult
    /\ ResultType = "string"
    /\ Len(last.reply.result.s) = 2
    /\ ~ValidHex(last.reply.result.s)
    /\ IsErr(last.out.res, "HexToBytes")

\* C8: when the response carries a JSON-RPC error object every typed method
\* returns an error of kind JsonRpc (the server's error), never Ok, and
\* decodes nothing of the payload.
C8_ErrorObjectIsJsonRpc ==
    (Invoked(TypedMethods) /\ GotErrorObject) =>
        /\ IsErr(last.out.res, "JsonRpc")
        /\ last.out.res.detail = "Rpc"
        /\ \A step \in DecodingSteps : ~Performed(step)

\* An error object came with a result the method could have decoded.
C8_Witness ==
    /\ Invoked({"get_best_block_hash"})
    /\ GotErrorObject
    /\ last.reply.result = JStr(ZeroHash)
    /\ IsErr(last.out.res, "JsonRpc")

\* The result does not deserialize into the type T that call was asked for.
Undeserializable == GotResult /\ ~Deserialize(last.type, ResultOf(last.reply), last.ext).ok

\* C9 (as claimed): call reports a server error object as JsonRpc, a result
\* of unexpected shape for T as Json and a transport failure as Io: three
\* failure classes, three error kinds.
C9_ThreeFailureKinds ==
    Invoked({"call"}) =>
        /\ GotErrorObject => IsErr(last.out.res, "JsonRpc")
        /\ Undeserializable => IsErr(last.out.res, "Json")
        /\ last.reply.kind = "transport_error" => IsErr(last.out.res, "Io")

\* The JSON types a typed method's result deserializes from.
ExpectedTypes(op) ==
    CASE op \in HexMethods \cup {"get_best_block_hash"} -> {"string"}
      [] op = "get_block_count" -> {"number"}
      [] op = "get_raw_mempool" -> {"array"}
      [] op \in {"get_block_verbose", "get_block_filter"} -> {"object", "array"}
      [] op = "get_block_hash" -> {"string", "object"}

WrongType == GotResult /\ ResultType \notin ExpectedTypes(last.op)

Invocations == TypedMethods \cup {"call"}

\* The positions of the invocation's steps at which a request went through
\* the transport.
Sends(steps) == {i \in 1..Len(steps) : steps[i] = "send_request"}

\* What the invocation in `l` was given: the operation, the type asked of
\* call, the request, the transport's reply and the external decoder's verdict.
InputsOf(l) ==
    <<l.op, IF l.op = "call" THEN l.type ELSE "", l.request, l.reply, l.ext>>

\* The failure an invocation reports is the failure of its own request: a
\* transport error exactly when its own send failed, the server's error
\* exactly when its own response carries an error object.
OwnFailure(l) ==
    /\ (IsErr(l.out.res, "JsonRpc") /\ l.out.res.detail = "Transport")
          <=> l.reply.kind = "transport_error"
    /\ (IsErr(l.out.res, "JsonRpc") /\ l.out.res.detail = "Rpc")
          <=> (l.reply.kind = "response" /\ l.reply.error.present)
    /\ l.out.res.ok => (l.reply.kind = "response" /\ ~l.reply.error.present)

=============================================================================
